---------------------------- MODULE Spec2Model ----------------------------
(***************************************************************************)
(* A model of esq1.py: the Ensoniq ESQ-1 patch parameters, the byte codec   *)
(* of each parameter group and of the whole patch, and the SYSEX framing.   *)
(*                                                                         *)
(* Python objects are records, lists are sequences (1-based), a raised      *)
(* exception is the name of its class in a field "raised" ("" when nothing  *)
(* was raised).  A bool is the integer 0 or 1, as it is in Python's         *)
(* arithmetic.  A string is the sequence of its characters' code points.    *)
(***************************************************************************)
EXTENDS Integers, Sequences, FiniteSets, TLC

VARIABLES
    pc,         \* the position of the calling script
    cls,        \* the class under test in the parity script
    original,   \* the object the script edits and serializes
    edits,      \* number of direct assignments made to original
    bytes,      \* the byte stream handed to deserialize
    tampered,   \* number of bytes of the stream changed after it was written
    new,        \* the object deserialize has filled
    cursor,     \* number of bytes deserialize has taken from the stream
    raised,     \* the exception the last call raised, "" if none
    arg,        \* the argument of the first sign codec call
    ret,        \* the value the last sign codec call returned
    patches,    \* the list of patches handed to esq1_patches_to_sysex
    channel,    \* the channel handed to esq1_patches_to_sysex
    file,       \* the SYSEX file: None while it does not exist, else Some(bytes)
    result,     \* what sysex_to_esq1_patches returned: None, or Some(list)
    copy,       \* the file written from result: None, or Some(bytes)
    parameter,  \* the Parameter a script holds: None, or Some(object)
    args,       \* the arguments the Parameter was constructed with
    call,       \* the last call on the Parameter and its argument
    before      \* the Parameter's value when the last call began

vars ==
    <<pc, cls, original, edits, bytes, tampered, new, cursor, raised, arg, ret,
      patches, channel, file, result, copy, parameter, args, call, before>>

\* The variables of the sign codec calls, of the SYSEX calls and of the
\* calls on one Parameter.
codecVars == <<arg, ret>>

sysexVars == <<patches, channel, file, result, copy>>

parameterVars == <<parameter, args, call, before>>

----------------------------------------------------------------------------
(* Bounds of the model. *)

\* randomize() is modelled by NSeeds different outcomes of the random draws.
NSeeds == 3
\* Changes one run makes by hand: direct assignments to the object
\* (x.value = v, patch.name = n) plus changes to a stream already written.
MaxChanges == 1
\* Sign codec arguments are drawn from -CodecSlack-63 .. 127+CodecSlack.
CodecSlack == 8

----------------------------------------------------------------------------
(* Python's integer operators on non-negative integers. *)

RECURSIVE BitAnd(_, _)
BitAnd(a, b) ==
    IF a = 0 \/ b = 0 THEN 0
    ELSE (a % 2) * (b % 2) + 2 * BitAnd(a \div 2, b \div 2)

Shl(a, n) == a * (2 ^ n)

Shr(a, n) == a \div (2 ^ n)

None == <<>>

Some(x) == <<x>>

Returned(x) == [raised |-> "", value |-> x]

Raise(e) == [raised |-> e]

----------------------------------------------------------------------------
(* class Parameter *)

\* A slip: the setter clamps a value outside the range instead of raising.
Parameter_value_set_clamped(self, value) ==
    IF value < self.minimum
    THEN [raised |-> "", self |-> [self EXCEPT !.value = self.minimum]]
    ELSE IF value > self.maximum
    THEN [raised |-> "", self |-> [self EXCEPT !.value = self.maximum]]
    ELSE [raised |-> "", self |-> [self EXCEPT !.value = value]]

\* A slip: the test against the maximum is missing.
Parameter_value_set_no_maximum(self, value) ==
    IF value < self.minimum THEN [raised |-> "ValueError", self |-> self]
    ELSE [raised |-> "", self |-> [self EXCEPT !.value = value]]

\* A slip: the ends of the range are rejected too.
Parameter_value_set_exclusive(self, value) ==
    IF value <= self.minimum THEN [raised |-> "ValueError", self |-> self]
    ELSE IF value >= self.maximum THEN [raised |-> "ValueError", self |-> self]
    ELSE [raised |-> "", self |-> [self EXCEPT !.value = value]]

\* The value setter: self.value = value.
Parameter_value_set(self, value) ==
    IF value < self.minimum THEN [raised |-> "ValueError", self |-> self]
    ELSE IF value > self.maximum THEN [raised |-> "ValueError", self |-> self]
    ELSE [raised |-> "", self |-> [self EXCEPT !.value = value]]

\* Parameter(minimum, maximum, default) for arguments __init__ accepts:
\* every parameter of a patch is built with minimum <= default <= maximum.
Parameter(minimum, maximum, default) ==
    LET d == IF default # None THEN default[1] ELSE minimum
    IN  [minimum |-> minimum, maximum |-> maximum, default |-> d, value |-> d]

\* randint(a, b) for the draw r of the random number generator.
randint(a, b, r) == a + (r % (b - a + 1))

Parameter_randomize(self, r) ==
    Parameter_value_set(self, randint(self.minimum, self.maximum, r)).self

Parameter_reset(self) == Parameter_value_set(self, self.default)

Parameter_set_minimum(self) == Parameter_value_set(self, self.minimum)

Parameter_set_maximum(self) == Parameter_value_set(self, self.maximum)

\* A slip: __init__ stores the default as the value without the setter.
Parameter_init_unchecked(minimum, maximum, default) ==
    IF minimum > maximum THEN [raised |-> "ValueError", self |-> None]
    ELSE LET d == IF default # None THEN default[1] ELSE minimum
         IN  [raised |-> "",
              self |-> [minimum |-> minimum, maximum |-> maximum,
                        default |-> d, value |-> d]]

\* Parameter.__init__ for any arguments: the object has no value until
\* reset() has assigned the default through the setter, and the caller gets
\* no object when __init__ raises.
Parameter_init(minimum, maximum, default) ==
    IF minimum > maximum THEN [raised |-> "ValueError", self |-> None]
    ELSE LET d == IF default # None THEN default[1] ELSE minimum
             r == Parameter_reset([minimum |-> minimum, maximum |-> maximum,
                                   default |-> d, value |-> None])
         IN  [raised |-> r.raised,
              self |-> IF r.raised = "" THEN r.self ELSE None]

\* Parameter.__eq__ compares the values only.
Parameter_eq(self, other) == self.value = other.value

OFF == 15

\* A slip: the range of a modulation source takes five bits.
ModulationSource_five_bits == Parameter(0, 31, Some(OFF))

ModulationSource == Parameter(0, OFF, Some(OFF))

ModulationAmount == Parameter(-63, 63, Some(0))

Boolean == Parameter(0, 1, None)

----------------------------------------------------------------------------
(* The sign codec. *)

display_to_pcb(value) ==
    IF value < -63 THEN Raise("ValueError")
    ELSE IF value < 0 THEN Returned(128 + value)
    ELSE IF value <= 63 THEN Returned(value)
    ELSE Raise("ValueError")

\* A slip: the test for the value 64 is missing.
pcb_to_display_without_64(value) ==
    IF value < 0 THEN Raise("ValueError")
    ELSE IF value < 64 THEN Returned(value)
    ELSE IF value <= 127 THEN Returned(-128 + value)
    ELSE Raise("ValueError")

pcb_to_display(value) ==
    IF value < 0 THEN Raise("ValueError")
    ELSE IF value < 64 THEN Returned(value)
    ELSE IF value = 64 THEN Raise("ValueError")
    ELSE IF value <= 127 THEN Returned(-128 + value)
    ELSE Raise("ValueError")

----------------------------------------------------------------------------
(* Byte streams.                                                           *)
(*                                                                         *)
(* serialize() appends to a bytearray, which takes integers 0..255 only.   *)
(* deserialize(bytes) takes an iterator: either iter(bytearray), or the    *)
(* generator _unpacker, which joins two bytes of the file into one.  A     *)
(* call in progress is the record c: the object being filled (self), the   *)
(* data behind the iterator, the number of items taken from the data (pos),*)
(* whether the iterator is _unpacker (packed), the local variables byte    *)
(* (what the last next() returned) and modulation_source_0, and the        *)
(* exception raised so far.  Once an exception is raised the remaining     *)
(* statements change nothing.                                              *)

bytearray(seq) ==
    IF \A i \in 1..Len(seq) : seq[i] >= 0 /\ seq[i] <= 255
    THEN [raised |-> "", bytes |-> seq]
    ELSE [raised |-> "ValueError", bytes |-> <<>>]

iter(data, pos, packed) == [data |-> data, pos |-> pos, packed |-> packed]

\* self.deserialize(it) begins.
Call(self, it) ==
    [self |-> self, data |-> it.data, pos |-> it.pos, packed |-> it.packed,
     byte |-> 0, modulation_source_0 |-> 0, raised |-> ""]

\* next(bytes).  _unpacker: low = next(sysex); high = next(sysex);
\* yield low + (high << 4).
next(c) ==
    IF c.raised # "" THEN c
    ELSE IF c.packed
    THEN IF c.pos + 2 > Len(c.data)
         THEN [c EXCEPT !.raised = "StopIteration", !.pos = Len(c.data)]
         ELSE [c EXCEPT !.byte = c.data[c.pos + 1] + Shl(c.data[c.pos + 2], 4),
                        !.pos = c.pos + 2]
    ELSE IF c.pos + 1 > Len(c.data)
         THEN [c EXCEPT !.raised = "StopIteration"]
         ELSE [c EXCEPT !.byte = c.data[c.pos + 1], !.pos = c.pos + 1]

\* self.<attr>.value = r.value (i = 0) or self.<attr>[i].value = r.value,
\* where r is what the right-hand side returned or raised.
Set(c, attr, i, r) ==
    IF c.raised # "" THEN c
    ELSE IF r.raised # "" THEN [c EXCEPT !.raised = r.raised]
    ELSE LET s == Parameter_value_set(
                      IF i = 0 THEN c.self[attr] ELSE c.self[attr][i], r.value)
         IN  IF s.raised # "" THEN [c EXCEPT !.raised = s.raised]
             ELSE IF i = 0 THEN [c EXCEPT !.self[attr] = s.self]
             ELSE [c EXCEPT !.self[attr][i] = s.self]

\* ... = byte >> shift
Shifted(c, attr, i, shift) == Set(c, attr, i, Returned(Shr(c.byte, shift)))

\* A slip: the masked bits are not shifted down.
Masked_unshifted(c, attr, i, mask, shift) ==
    Set(c, attr, i, Returned(BitAnd(c.byte, mask)))

\* ... = (byte & mask) >> shift
Masked(c, attr, i, mask, shift) ==
    Set(c, attr, i, Returned(Shr(BitAnd(c.byte, mask), shift)))

\* ... = pcb_to_display(byte >> shift)
ShiftedPcb(c, attr, i, shift) ==
    Set(c, attr, i, pcb_to_display(Shr(c.byte, shift)))

\* ... = pcb_to_display(byte & mask)
MaskedPcb(c, attr, i, mask) ==
    Set(c, attr, i, pcb_to_display(BitAnd(c.byte, mask)))

\* LFO.deserialize: modulation_source_0 = (byte & 0b11000000) >> 6
LFO_modulation_source_0(c) ==
    IF c.raised # "" THEN c
    ELSE [c EXCEPT !.modulation_source_0 = Shr(BitAnd(c.byte, 192), 6)]

\* LFO.deserialize: modulation_source_1 = (byte & 0b11000000) >> 6 ...
\* self.modulation_source.value = modulation_source_1 +
\*     (modulation_source_0 << 2)
LFO_modulation_source(c) ==
    Set(c, "modulation_source", 0,
        Returned(Shr(BitAnd(c.byte, 192), 6) + Shl(c.modulation_source_0, 2)))

\* One statement of a deserialize method, written as a tuple:
\*   <<"next">>                          byte = next(bytes)
\*   <<"shifted", attr, i, shift>>       self.attr[i].value = byte >> shift
\*   <<"masked", attr, i, mask, shift>>  ... = (byte & mask) >> shift
\*   <<"shifted_pcb", attr, i, shift>>   ... = pcb_to_display(byte >> shift)
\*   <<"masked_pcb", attr, i, mask>>     ... = pcb_to_display(byte & mask)
\* (i = 0: self.attr.value), and the two statements of LFO.deserialize above.
\* "x.value = next(bytes)" is the two statements next and shifted by 0.
Statement(c, s) ==
    CASE s[1] = "next" -> next(c)
      [] s[1] = "shifted" -> Shifted(c, s[2], s[3], s[4])
      [] s[1] = "masked" -> Masked(c, s[2], s[3], s[4], s[5])
      [] s[1] = "shifted_pcb" -> ShiftedPcb(c, s[2], s[3], s[4])
      [] s[1] = "masked_pcb" -> MaskedPcb(c, s[2], s[3], s[4])
      [] s[1] = "modulation_source_0" -> LFO_modulation_source_0(c)
      [] s[1] = "modulation_source" -> LFO_modulation_source(c)

\* The statements from the i-th on, one after the other; an exception ends
\* the method.
RECURSIVE Statements(_, _, _)
Statements(c, body, i) ==
    IF c.raised # "" \/ i > Len(body) THEN c
    ELSE Statements(Statement(c, body[i]), body, i + 1)

----------------------------------------------------------------------------
(* class Envelope *)

Envelope ==
    [levels |-> [i \in 1..3 |-> ModulationAmount],
     times |-> [i \in 1..4 |-> Parameter(0, 63, None)],
     velocity_level |-> Parameter(0, 63, None),
     velocity_attack_control |-> Parameter(0, 63, None),
     keyboard_decay_scaling |-> Parameter(0, 63, None)]

\* A slip: the velocity level is shifted by one bit, not two.
Envelope_serialize_velocity_shift(self) ==
    bytearray(
        [i \in 1..3 |-> Shl(display_to_pcb(self.levels[i].value).value, 1)]
        \o [i \in 1..4 |-> self.times[i].value]
        \o << Shl(self.velocity_level.value, 1),
              self.velocity_attack_control.value,
              self.keyboard_decay_scaling.value >>)

Envelope_serialize(self) ==
    bytearray(
        [i \in 1..3 |-> Shl(display_to_pcb(self.levels[i].value).value, 1)]
        \o [i \in 1..4 |-> self.times[i].value]
        \o << Shl(self.velocity_level.value, 2),
              self.velocity_attack_control.value,
              self.keyboard_decay_scaling.value >>)

\* for level in self.levels: level.value = pcb_to_display(next(bytes) >> 1)
RECURSIVE Envelope_deserialize_levels(_, _)
Envelope_deserialize_levels(c, i) ==
    IF i > Len(c.self.levels) THEN c
    ELSE Envelope_deserialize_levels(ShiftedPcb(next(c), "levels", i, 1), i + 1)

\* for time in self.times: time.value = next(bytes)
RECURSIVE Envelope_deserialize_times(_, _)
Envelope_deserialize_times(c, i) ==
    IF i > Len(c.self.times) THEN c
    ELSE Envelope_deserialize_times(Shifted(next(c), "times", i, 0), i + 1)

\* A slip: the last byte is not read.
Envelope_deserialize_rest_short ==
    << <<"next">>, <<"shifted", "velocity_level", 0, 2>>,
       <<"next">>, <<"shifted", "velocity_attack_control", 0, 0>> >>

\* The statements after the two loops.
Envelope_deserialize_rest ==
    << <<"next">>, <<"shifted", "velocity_level", 0, 2>>,
       <<"next">>, <<"shifted", "velocity_attack_control", 0, 0>>,
       <<"next">>, <<"shifted", "keyboard_decay_scaling", 0, 0>> >>

Envelope_deserialize(c) ==
    Statements(
        Envelope_deserialize_times(Envelope_deserialize_levels(c, 1), 1),
        Envelope_deserialize_rest, 1)

----------------------------------------------------------------------------
(* class LFO *)

NOISE == 3

LFO ==
    [levels |-> << Parameter(0, 63, None), Parameter(0, 63, None) >>,
     frequency |-> Parameter(0, 63, None),
     reset |-> Boolean,
     humanize |-> Boolean,
     waveform |-> Parameter(0, NOISE, None),
     delay |-> Parameter(0, 63, None),
     modulation_source |-> ModulationSource]

\* A slip: the two halves of the modulation source are written to each
\* other's byte.
LFO_serialize_halves_swapped(self) ==
    LET waveform == Shl(BitAnd(self.waveform.value, 3), 6)
        modulation_source_0 == Shl(BitAnd(self.modulation_source.value, 3), 6)
        modulation_source_1 == Shl(BitAnd(self.modulation_source.value, 12), 4)
        reset == Shl(BitAnd(self.reset.value, 1), 7)
        humanize == Shl(BitAnd(self.humanize.value, 1), 6)
    IN  bytearray(<< waveform + self.frequency.value,
                     modulation_source_0 + self.levels[1].value,
                     modulation_source_1 + self.levels[2].value,
                     reset + humanize + self.delay.value >>)

LFO_serialize(self) ==
    LET waveform == Shl(BitAnd(self.waveform.value, 3), 6)
        modulation_source_0 == Shl(BitAnd(self.modulation_source.value, 3), 6)
        modulation_source_1 == Shl(BitAnd(self.modulation_source.value, 12), 4)
        reset == Shl(BitAnd(self.reset.value, 1), 7)
        humanize == Shl(BitAnd(self.humanize.value, 1), 6)
    IN  bytearray(<< waveform + self.frequency.value,
                     modulation_source_1 + self.levels[1].value,
                     modulation_source_0 + self.levels[2].value,
                     reset + humanize + self.delay.value >>)

LFO_deserialize_body ==
    << <<"next">>,
       <<"masked", "waveform", 0, 192, 6>>,
       <<"masked", "frequency", 0, 63, 0>>,
       <<"next">>,
       <<"modulation_source_0">>,
       <<"masked", "levels", 1, 63, 0>>,
       <<"next">>,
       <<"masked", "levels", 2, 63, 0>>,
       <<"modulation_source">>,
       <<"next">>,
       <<"masked", "reset", 0, 128, 7>>,
       <<"masked", "humanize", 0, 64, 6>>,
       <<"masked", "delay", 0, 63, 0>> >>

LFO_deserialize(c) == Statements(c, LFO_deserialize_body, 1)

----------------------------------------------------------------------------
(* class Oscillator *)

OCT_5 == 32

Oscillator ==
    [semitone |-> Parameter(0, 96, Some(36)),
     fine_tune |-> Parameter(0, 31, None),
     frequency_modulation_sources |-> << ModulationSource, ModulationSource >>,
     frequency_modulation_amounts |-> << ModulationAmount, ModulationAmount >>,
     waveform |-> Parameter(0, OCT_5, None),
     dca_enable |-> Boolean,
     dca_level |-> Parameter(0, 63, None),
     dca_modulation_sources |-> << ModulationSource, ModulationSource >>,
     dca_modulation_amounts |-> << ModulationAmount, ModulationAmount >>]

Oscillator_serialize(self) ==
    LET fine_tune == Shl(self.fine_tune.value, 3)
        frequency_modulation_sources ==
            Shl(self.frequency_modulation_sources[2].value, 4)
            + self.frequency_modulation_sources[1].value
        frequency_modulation_amounts ==
            << Shl(display_to_pcb(self.frequency_modulation_amounts[1].value).value, 1),
               Shl(display_to_pcb(self.frequency_modulation_amounts[2].value).value, 1) >>
        dca_enable == Shl(BitAnd(self.dca_enable.value, 1), 7)
        dca_level == Shl(self.dca_level.value, 1)
        dca_modulation_sources ==
            Shl(self.dca_modulation_sources[2].value, 4)
            + self.dca_modulation_sources[1].value
        dca_modulation_amounts ==
            << Shl(display_to_pcb(self.dca_modulation_amounts[1].value).value, 1),
               Shl(display_to_pcb(self.dca_modulation_amounts[2].value).value, 1) >>
    IN  bytearray(<< self.semitone.value,
                     fine_tune,
                     frequency_modulation_sources,
                     frequency_modulation_amounts[1],
                     frequency_modulation_amounts[2],
                     self.waveform.value,
                     dca_enable + dca_level,
                     dca_modulation_sources,
                     dca_modulation_amounts[1],
                     dca_modulation_amounts[2] >>)

Oscillator_deserialize_body ==
    << <<"next">>, <<"shifted", "semitone", 0, 0>>,
       <<"next">>, <<"shifted", "fine_tune", 0, 3>>,
       <<"next">>,
       <<"shifted", "frequency_modulation_sources", 2, 4>>,
       <<"masked", "frequency_modulation_sources", 1, 15, 0>>,
       <<"next">>, <<"shifted_pcb", "frequency_modulation_amounts", 1, 1>>,
       <<"next">>, <<"shifted_pcb", "frequency_modulation_amounts", 2, 1>>,
       <<"next">>, <<"shifted", "waveform", 0, 0>>,
       <<"next">>,
       <<"masked", "dca_enable", 0, 128, 7>>,
       <<"masked", "dca_level", 0, 127, 1>>,
       <<"next">>,
       <<"shifted", "dca_modulation_sources", 2, 4>>,
       <<"masked", "dca_modulation_sources", 1, 15, 0>>,
       <<"next">>, <<"shifted_pcb", "dca_modulation_amounts", 1, 1>>,
       <<"next">>, <<"shifted_pcb", "dca_modulation_amounts", 2, 1>> >>

Oscillator_deserialize(c) == Statements(c, Oscillator_deserialize_body, 1)

----------------------------------------------------------------------------
(* class Miscellaneous *)

Miscellaneous ==
    [sync |-> Boolean,
     am |-> Boolean,
     mono |-> Boolean,
     glide |-> Parameter(0, 63, None),
     reset_voice |-> Boolean,
     reset_envelope |-> Boolean,
     reset_oscillator |-> Boolean,
     cycle |-> Boolean,
     pan |-> Parameter(0, 15, Some(8)),
     pan_modulation_source |-> ModulationSource,
     pan_modulation_amount |-> ModulationAmount,
     dca4_modulation_amount |-> Parameter(0, 63, None),
     frequency |-> Parameter(0, 127, None),
     resonance |-> Parameter(0, 31, None),
     filter_modulation_sources |-> << ModulationSource, ModulationSource >>,
     filter_modulation_amount |-> << ModulationAmount, ModulationAmount >>,
     filter_keyboard_tracking |-> Parameter(0, 63, None),
     split_direction |-> Boolean,
     split_point |-> Parameter(0, 108, None),
     layer_flag |-> Boolean,
     layer_program |-> Parameter(0, 39, None),
     split_flag |-> Boolean,
     split_program |-> Parameter(0, 39, None),
     split_layer_flag |-> Boolean,
     split_layer_program |-> Parameter(0, 39, None)]

Miscellaneous_serialize(self) ==
    LET am == Shl(BitAnd(self.am.value, 1), 7)
        dca4_modulation_amount == Shl(self.dca4_modulation_amount.value, 1)
        sync == Shl(BitAnd(self.sync.value, 1), 7)
        filter_modulation_sources ==
            << self.filter_modulation_sources[1].value,
               Shl(self.filter_modulation_sources[2].value, 4) >>
        reset_voice == Shl(BitAnd(self.reset_voice.value, 1), 7)
        mono == Shl(BitAnd(self.mono.value, 1), 7)
        reset_envelope == Shl(BitAnd(self.reset_envelope.value, 1), 7)
        filter_keyboard_tracking == Shl(self.filter_keyboard_tracking.value, 1)
        reset_oscillator == Shl(BitAnd(self.reset_oscillator.value, 1), 7)
        split_direction == Shl(BitAnd(self.split_direction.value, 1), 7)
        layer_flag == Shl(BitAnd(self.layer_flag.value, 1), 7)
        split_flag == Shl(BitAnd(self.split_flag.value, 1), 7)
        split_layer_flag == Shl(BitAnd(self.split_layer_flag.value, 1), 7)
        pan == Shl(self.pan.value, 4)
        cycle == Shl(BitAnd(self.cycle.value, 1), 7)
    IN  bytearray(<<
            am + dca4_modulation_amount,
            sync + self.frequency.value,
            self.resonance.value,
            filter_modulation_sources[1] + filter_modulation_sources[2],
            reset_voice
                + display_to_pcb(self.filter_modulation_amount[1].value).value,
            mono + display_to_pcb(self.filter_modulation_amount[2].value).value,
            reset_envelope + filter_keyboard_tracking,
            reset_oscillator + self.glide.value,
            split_direction + self.split_point.value,
            layer_flag + self.layer_program.value,
            split_flag + self.split_program.value,
            split_layer_flag + self.split_layer_program.value,
            pan + self.pan_modulation_source.value,
            cycle + display_to_pcb(self.pan_modulation_amount.value).value >>)

Miscellaneous_deserialize_body ==
    << <<"next">>,
       <<"masked", "am", 0, 128, 7>>,
       <<"masked", "dca4_modulation_amount", 0, 127, 1>>,
       <<"next">>,
       <<"masked", "sync", 0, 128, 7>>,
       <<"masked", "frequency", 0, 127, 0>>,
       <<"next">>, <<"shifted", "resonance", 0, 0>>,
       <<"next">>,
       <<"masked", "filter_modulation_sources", 1, 15, 0>>,
       <<"shifted", "filter_modulation_sources", 2, 4>>,
       <<"next">>,
       <<"masked", "reset_voice", 0, 128, 7>>,
       <<"masked_pcb", "filter_modulation_amount", 1, 127>>,
       <<"next">>,
       <<"masked", "mono", 0, 128, 7>>,
       <<"masked_pcb", "filter_modulation_amount", 2, 127>>,
       <<"next">>,
       <<"masked", "reset_envelope", 0, 128, 7>>,
       <<"masked", "filter_keyboard_tracking", 0, 127, 1>>,
       <<"next">>,
       <<"masked", "reset_oscillator", 0, 128, 7>>,
       <<"masked", "glide", 0, 127, 0>>,
       <<"next">>,
       <<"masked", "split_direction", 0, 128, 7>>,
       <<"masked", "split_point", 0, 127, 0>>,
       <<"next">>,
       <<"masked", "layer_flag", 0, 128, 7>>,
       <<"masked", "layer_program", 0, 127, 0>>,
       <<"next">>,
       <<"masked", "split_flag", 0, 128, 7>>,
       <<"masked", "split_program", 0, 127, 0>>,
       <<"next">>,
       <<"masked", "split_layer_flag", 0, 128, 7>>,
       <<"masked", "split_layer_program", 0, 127, 0>>,
       <<"next">>,
       <<"masked", "pan", 0, 240, 4>>,
       <<"masked", "pan_modulation_source", 0, 15, 0>>,
       <<"next">>,
       <<"masked", "cycle", 0, 128, 7>>,
       <<"masked_pcb", "pan_modulation_amount", 0, 127>> >>

Miscellaneous_deserialize(c) == Statements(c, Miscellaneous_deserialize_body, 1)

----------------------------------------------------------------------------
(* class ESQ1Patch *)

NAME_LENGTH == 6

\* ord(' ')
Space == 32

\* c.upper() for one character: the names of the model are made of ASCII
\* characters and of characters without case.
upper(ch) == IF ch >= 97 /\ ch <= 122 THEN ch - 32 ELSE ch

\* name.ljust(width)
ljust(name, width) ==
    IF Len(name) >= width THEN name
    ELSE name \o [i \in 1..(width - Len(name)) |-> Space]

ESQ1Patch ==
    [name |-> [i \in 1..6 |-> Space],
     envelopes |-> [i \in 1..4 |-> Envelope],
     lfos |-> [i \in 1..3 |-> LFO],
     oscillators |-> [i \in 1..3 |-> Oscillator],
     miscellaneous |-> Miscellaneous]

ESQ1Patch_clean_name(self) ==
    LET name_cleaned ==
            IF Len(self.name) >= NAME_LENGTH
            THEN SubSeq(self.name, 1, NAME_LENGTH)
            ELSE ljust(self.name, NAME_LENGTH)
    IN  bytearray([i \in 1..Len(name_cleaned) |-> upper(name_cleaned[i])])

\* x.serialize() of a parameter group x of class c.
Group_serialize(self, c) ==
    CASE c = "Envelope" -> Envelope_serialize(self)
      [] c = "LFO" -> LFO_serialize(self)
      [] c = "Oscillator" -> Oscillator_serialize(self)
      [] c = "Miscellaneous" -> Miscellaneous_serialize(self)

\* x.deserialize(bytes) of a parameter group x of class c.
Group_deserialize(d, c) ==
    CASE c = "Envelope" -> Envelope_deserialize(d)
      [] c = "LFO" -> LFO_deserialize(d)
      [] c = "Oscillator" -> Oscillator_deserialize(d)
      [] c = "Miscellaneous" -> Miscellaneous_deserialize(d)

\* bytes += x.serialize() for each x of the list, in order.
RECURSIVE SerializeAll(_, _, _, _)
SerializeAll(acc, list, i, c) ==
    IF i > Len(list) THEN acc
    ELSE SerializeAll(acc \o Group_serialize(list[i], c).bytes, list, i + 1, c)

\* A slip: the oscillators are written before the LFOs.
ESQ1Patch_serialize_swapped(self) ==
    LET name == ESQ1Patch_clean_name(self)
    IN  IF name.raised # "" THEN name
        ELSE [raised |-> "",
              bytes |->
                SerializeAll(
                  SerializeAll(
                    SerializeAll(name.bytes, self.envelopes, 1, "Envelope"),
                    self.oscillators, 1, "Oscillator"),
                  self.lfos, 1, "LFO")
                \o Miscellaneous_serialize(self.miscellaneous).bytes]

ESQ1Patch_serialize(self) ==
    LET name == ESQ1Patch_clean_name(self)
    IN  IF name.raised # "" THEN name
        ELSE [raised |-> "",
              bytes |->
                SerializeAll(
                  SerializeAll(
                    SerializeAll(name.bytes, self.envelopes, 1, "Envelope"),
                    self.lfos, 1, "LFO"),
                  self.oscillators, 1, "Oscillator")
                \o Miscellaneous_serialize(self.miscellaneous).bytes]

\* The call x.deserialize(bytes) that self.deserialize(bytes) makes on its
\* item x = self.<attr>[i]: the iterator is shared.
Item(c, attr, i) == [c EXCEPT !.self = c.self[attr][i]]

\* That call has ended as d: self holds the item as the call left it.
Into(c, attr, i, d) == [d EXCEPT !.self = [c.self EXCEPT ![attr][i] = d.self]]

ItemMiscellaneous(c) == [c EXCEPT !.self = c.self.miscellaneous]

IntoMiscellaneous(c, d) ==
    [d EXCEPT !.self = [c.self EXCEPT !.miscellaneous = d.self]]

\* name = [chr(next(bytes)) for i in range(self.NAME_LENGTH)], the
\* characters read so far being name; self.name = "".join(name)
RECURSIVE ESQ1Patch_deserialize_name(_, _, _)
ESQ1Patch_deserialize_name_next(n, name, i) ==
    ESQ1Patch_deserialize_name(n, Append(name, n.byte), i + 1)

ESQ1Patch_deserialize_name(c, name, i) ==
    IF c.raised # "" THEN c
    ELSE IF i > NAME_LENGTH THEN [c EXCEPT !.self.name = name]
    ELSE ESQ1Patch_deserialize_name_next(next(c), name, i)

\* for x in self.<attr>: x.deserialize(bytes), x of class k
RECURSIVE ESQ1Patch_deserialize_list(_, _, _, _)
ESQ1Patch_deserialize_list(c, attr, i, k) ==
    IF i > Len(c.self[attr]) THEN c
    ELSE ESQ1Patch_deserialize_list(
             Into(c, attr, i, Group_deserialize(Item(c, attr, i), k)),
             attr, i + 1, k)

\* self.miscellaneous.deserialize(bytes)
ESQ1Patch_deserialize_miscellaneous(c) ==
    IntoMiscellaneous(c, Miscellaneous_deserialize(ItemMiscellaneous(c)))

ESQ1Patch_deserialize(c) ==
    ESQ1Patch_deserialize_miscellaneous(
      ESQ1Patch_deserialize_list(
        ESQ1Patch_deserialize_list(
          ESQ1Patch_deserialize_list(
            ESQ1Patch_deserialize_name(c, << >>, 1),
            "envelopes", 1, "Envelope"),
          "lfos", 1, "LFO"),
        "oscillators", 1, "Oscillator"))

----------------------------------------------------------------------------
(* class ParameterCollection: what the classes above inherit.             *)

\* The attributes of a parameter group that are lists of parameters
\* (type(attr) is list); the others are parameters.
ListAttributes ==
    {"levels", "times", "frequency_modulation_sources",
     "frequency_modulation_amounts", "dca_modulation_sources",
     "dca_modulation_amounts", "filter_modulation_sources",
     "filter_modulation_amount"}

\* The order of self.__dict__: the order __init__ assigns the attributes in.
Attributes(c) ==
    CASE c = "Envelope" ->
           << "levels", "times", "velocity_level", "velocity_attack_control",
              "keyboard_decay_scaling" >>
      [] c = "LFO" ->
           << "levels", "frequency", "reset", "humanize", "waveform", "delay",
              "modulation_source" >>
      [] c = "Oscillator" ->
           << "semitone", "fine_tune", "frequency_modulation_sources",
              "frequency_modulation_amounts", "waveform", "dca_enable",
              "dca_level", "dca_modulation_sources", "dca_modulation_amounts" >>
      [] c = "Miscellaneous" ->
           << "sync", "am", "mono", "glide", "reset_voice", "reset_envelope",
              "reset_oscillator", "cycle", "pan", "pan_modulation_source",
              "pan_modulation_amount", "dca4_modulation_amount", "frequency",
              "resonance", "filter_modulation_sources",
              "filter_modulation_amount", "filter_keyboard_tracking",
              "split_direction", "split_point", "layer_flag", "layer_program",
              "split_flag", "split_program", "split_layer_flag",
              "split_layer_program" >>
      [] c = "ESQ1Patch" ->
           << "name", "envelopes", "lfos", "oscillators", "miscellaneous" >>

\* The class of the items of a patch's attribute.
ClassOf(attr) ==
    CASE attr = "envelopes" -> "Envelope"
      [] attr = "lfos" -> "LFO"
      [] attr = "oscillators" -> "Oscillator"
      [] attr = "miscellaneous" -> "Miscellaneous"

\* The random draw of the k-th call of randint after seeding with seed.
Draw(seed, k) == (seed + 1) * (7 * k + 3) + seed * k * k

\* randomize() of a parameter group whose first draw is the k-th.
Group_randomize(self, c, seed, k) ==
    LET attrs == Attributes(c)
    IN  [a \in DOMAIN self |->
           LET j == CHOOSE x \in 1..Len(attrs) : attrs[x] = a
           IN  IF a \in ListAttributes
               THEN [i \in 1..Len(self[a]) |->
                       Parameter_randomize(self[a][i], Draw(seed, k + 4 * j + i))]
               ELSE Parameter_randomize(self[a], Draw(seed, k + 4 * j))]

ESQ1Patch_randomize(self, seed) ==
    [self EXCEPT
       !.envelopes = [i \in 1..Len(@) |->
                        Group_randomize(@[i], "Envelope", seed, 100 * i)],
       !.lfos = [i \in 1..Len(@) |->
                   Group_randomize(@[i], "LFO", seed, 400 + 100 * i)],
       !.oscillators = [i \in 1..Len(@) |->
                          Group_randomize(@[i], "Oscillator", seed, 700 + 100 * i)],
       !.miscellaneous = Group_randomize(@, "Miscellaneous", seed, 1100)]

ParameterCollection_randomize(self, c, seed) ==
    IF c = "ESQ1Patch" THEN ESQ1Patch_randomize(self, seed)
    ELSE Group_randomize(self, c, seed, 0)

\* __eq__ of a parameter group: no attribute of self differs from other's.
Group_eq(self, other) ==
    \A a \in DOMAIN self :
        IF a \in ListAttributes
        THEN /\ Len(self[a]) = Len(other[a])
             /\ \A i \in 1..Len(self[a]) : Parameter_eq(self[a][i], other[a][i])
        ELSE Parameter_eq(self[a], other[a])

ESQ1Patch_eq(self, other) ==
    /\ self.name = other.name
    /\ \A a \in {"envelopes", "lfos", "oscillators"} :
          /\ Len(self[a]) = Len(other[a])
          /\ \A i \in 1..Len(self[a]) : Group_eq(self[a][i], other[a][i])
    /\ Group_eq(self.miscellaneous, other.miscellaneous)

ParameterCollection_eq(self, other, c) ==
    IF c = "ESQ1Patch" THEN ESQ1Patch_eq(self, other) ELSE Group_eq(self, other)

\* cls(): a new object of the class.
Construct(c) ==
    CASE c = "Envelope" -> Envelope
      [] c = "LFO" -> LFO
      [] c = "Oscillator" -> Oscillator
      [] c = "Miscellaneous" -> Miscellaneous
      [] c = "ESQ1Patch" -> ESQ1Patch

Serialize(self, c) ==
    IF c = "ESQ1Patch" THEN ESQ1Patch_serialize(self)
    ELSE Group_serialize(self, c)

\* self.deserialize(it) for a new iterator it over data.
Deserialize(self, c, it) ==
    IF c = "ESQ1Patch" THEN ESQ1Patch_deserialize(Call(self, it))
    ELSE Group_deserialize(Call(self, it), c)

----------------------------------------------------------------------------
(* SYSEX files.                                                            *)
(*                                                                         *)
(* The file at filename is None while it does not exist and Some(bytes)    *)
(* once written.  The assert statements are executed (the interpreter is   *)
(* not run with -O).  A next() on an exhausted iterator raises             *)
(* StopIteration; raised inside _unpacker it reaches the caller as         *)
(* StopIteration, or as RuntimeError from Python 3.7 on: the model calls    *)
(* both StopIteration.                                                     *)

\* A slip: the first four bits are appended before the last four.
esq1_patches_to_sysex_nibbles_high_first(data) ==
    [j \in 1..(2 * Len(data)) |->
       IF j % 2 = 1 THEN Shr(data[(j + 1) \div 2], 4)
       ELSE BitAnd(data[j \div 2], 15)]

\* for bytes in patch.serialize(): result.append(bytes & 0b00001111);
\* result.append(bytes >> 4)
esq1_patches_to_sysex_nibbles(data) ==
    [j \in 1..(2 * Len(data)) |->
       IF j % 2 = 1 THEN BitAnd(data[(j + 1) \div 2], 15)
       ELSE Shr(data[j \div 2], 4)]

\* A slip: the bytes of a patch are appended whole, not as two halves.
esq1_patches_to_sysex_patch_whole(r, s) ==
    IF s.raised # "" THEN [raised |-> s.raised, bytes |-> r.bytes]
    ELSE [raised |-> "", bytes |-> r.bytes \o s.bytes]

\* One round of "for patch in patches[:40]": s is what patch.serialize()
\* returned or raised, r the result so far.
esq1_patches_to_sysex_patch(r, s) ==
    IF s.raised # "" THEN [raised |-> s.raised, bytes |-> r.bytes]
    ELSE [raised |-> "", bytes |-> r.bytes \o esq1_patches_to_sysex_nibbles(s.bytes)]

\* for patch in patches[:40]: ..., from the i-th patch of the slice on.
RECURSIVE esq1_patches_to_sysex_loop(_, _, _)
esq1_patches_to_sysex_loop(r, slice, i) ==
    IF r.raised # "" \/ i > Len(slice) THEN r
    ELSE esq1_patches_to_sysex_loop(
             esq1_patches_to_sysex_patch(r, ESQ1Patch_serialize(slice[i])),
             slice, i + 1)

\* patches += [ESQ1Patch() for i in range(number_of_patches - len(patches))]
esq1_patches_to_sysex_pad(list, number_of_patches) ==
    IF number_of_patches - Len(list) <= 0 THEN list
    ELSE list \o [i \in 1..(number_of_patches - Len(list)) |-> ESQ1Patch]

\* A slip: patches[-40:], the last 40 patches.
esq1_patches_to_sysex_slice_last(list) ==
    IF Len(list) <= 40 THEN list ELSE SubSeq(list, Len(list) - 39, Len(list))

\* patches[:40]
esq1_patches_to_sysex_slice(list) ==
    IF Len(list) <= 40 THEN list ELSE SubSeq(list, 1, 40)

\* A slip: "else" in place of "elif len(patches) > 1", and nothing raised.
esq1_patches_to_sysex_dump_type_else(n) ==
    IF n = 1 THEN Returned(1) ELSE Returned(2)

\* The dump type appended for a list of n patches: 0x01 when
\* len(patches) == 1, 0x02 when len(patches) > 1, else ValueError.
esq1_patches_to_sysex_dump_type(n) ==
    IF n = 1 THEN Returned(1)
    ELSE IF n > 1 THEN Returned(2)
    ELSE Raise("ValueError")

\* number_of_patches, set in the same branch as the dump type.
esq1_patches_to_sysex_number_of_patches(dump_type) ==
    IF dump_type = 1 THEN 1 ELSE 40

\* A slip: "patches = list(patches)" is missing, and the name patches stays
\* bound to the list the caller holds.
esq1_patches_to_sysex_copy_missing(list) ==
    [caller |-> list, patches |-> list, same |-> TRUE]

\* patches = list(patches): the name patches is bound to a new list of the
\* same patches; caller is the list the caller holds.
esq1_patches_to_sysex_copy(list) ==
    [caller |-> list, patches |-> list, same |-> FALSE]

\* patches += [...]: the list the name patches is bound to is extended in
\* place.
esq1_patches_to_sysex_extend(s, number_of_patches) ==
    [s EXCEPT
       !.patches = esq1_patches_to_sysex_pad(s.patches, number_of_patches),
       !.caller = IF s.same
                  THEN esq1_patches_to_sysex_pad(s.patches, number_of_patches)
                  ELSE @]

\* The patch after patch.serialize(): serialize, clean_name and the
\* serialize of each group bind local names and read values; none of them
\* assigns to an attribute.
ESQ1Patch_serialize_self(self) == self

\* The number of patches of the slice that "for patch in patches[:40]" has
\* called serialize() on: all of them, or those up to the one whose
\* serialize() raised.
RECURSIVE esq1_patches_to_sysex_visited(_, _)
esq1_patches_to_sysex_visited(slice, i) ==
    IF i > Len(slice) THEN Len(slice)
    ELSE IF ESQ1Patch_serialize(slice[i]).raised # "" THEN i
    ELSE esq1_patches_to_sysex_visited(slice, i + 1)

\* The list the caller holds once the loop is over: its patches are the
\* patches of the slice, as far as the slice goes.
esq1_patches_to_sysex_caller(s, visited) ==
    [i \in 1..Len(s.caller) |->
       IF i <= visited THEN ESQ1Patch_serialize_self(s.caller[i])
       ELSE s.caller[i]]

\* esq1_patches_to_sysex(list, filename, chan), old being the file at
\* filename before the call: what is raised, the file after the call and
\* the list the caller passed as it is after the call.
\* The file is opened and written in the last two lines only.
esq1_patches_to_sysex(list, old, chan) ==
    LET header == bytearray(<< 240, 15, 2, chan >>)
        dump_type == esq1_patches_to_sysex_dump_type(Len(list))
    IN  IF header.raised # ""
        THEN [raised |-> header.raised, file |-> old, patches |-> list]
        ELSE IF dump_type.raised # ""
        THEN [raised |-> dump_type.raised, file |-> old,
              patches |-> esq1_patches_to_sysex_copy(list).caller]
        ELSE LET padded == esq1_patches_to_sysex_extend(
                               esq1_patches_to_sysex_copy(list),
                               esq1_patches_to_sysex_number_of_patches(
                                   dump_type.value))
                 body == esq1_patches_to_sysex_loop(
                             [raised |-> "",
                              bytes |-> Append(header.bytes, dump_type.value)],
                             esq1_patches_to_sysex_slice(padded.patches),
                             1)
                 after == esq1_patches_to_sysex_caller(
                              padded,
                              esq1_patches_to_sysex_visited(
                                  esq1_patches_to_sysex_slice(padded.patches),
                                  1))
             IN  IF body.raised # ""
                 THEN [raised |-> body.raised, file |-> old, patches |-> after]
                 ELSE [raised |-> "", file |-> Some(Append(body.bytes, 247)),
                       patches |-> after]

\* assert byte == value, byte being what next(sysex) just returned
sysex_to_esq1_patches_assert(n, value) ==
    IF n.raised # "" THEN n
    ELSE IF n.byte = value THEN n
    ELSE [n EXCEPT !.raised = "AssertionError"]

\* The three asserts on the header, channel = next(sysex) and
\* dump_type = next(sysex): c.byte is dump_type, c.self the list patches.
sysex_to_esq1_patches_header(data) ==
    next(next(
        sysex_to_esq1_patches_assert(next(
            sysex_to_esq1_patches_assert(next(
                sysex_to_esq1_patches_assert(next(
                    Call(<< >>, iter(data, 0, FALSE))), 240)), 15)), 2)))

\* A slip: every dump type but 0x02 is read as a single program dump.
sysex_to_esq1_patches_patch_count_single(dump_type) ==
    IF dump_type = 2 THEN Returned(40) ELSE Returned(1)

\* patch_count for a dump_type
sysex_to_esq1_patches_patch_count(dump_type) ==
    IF dump_type = 1 THEN Returned(1)
    ELSE IF dump_type = 2 THEN Returned(40)
    ELSE Raise("ValueError")

\* patch = ESQ1Patch(); patches.append(patch); patch.deserialize(unpacker):
\* d is the call of deserialize as it ended, the unpacker having taken its
\* bytes from sysex.
sysex_to_esq1_patches_patch(c, d) ==
    [c EXCEPT !.self = Append(c.self, d.self), !.pos = d.pos,
              !.raised = d.raised]

\* for i in range(patch_count): ..., from round i on
RECURSIVE sysex_to_esq1_patches_loop(_, _, _)
sysex_to_esq1_patches_loop(c, i, patch_count) ==
    IF c.raised # "" \/ i >= patch_count THEN c
    ELSE sysex_to_esq1_patches_loop(
             sysex_to_esq1_patches_patch(c,
                 ESQ1Patch_deserialize(
                     Call(ESQ1Patch, iter(c.data, c.pos, TRUE)))),
             i + 1, patch_count)

\* From "if dump_type == 0x01" to the end of the loop.
sysex_to_esq1_patches_body(c) ==
    IF c.raised # "" THEN c
    ELSE IF sysex_to_esq1_patches_patch_count(c.byte).raised # ""
    THEN [c EXCEPT !.raised = "ValueError"]
    ELSE sysex_to_esq1_patches_loop(
             c, 0, sysex_to_esq1_patches_patch_count(c.byte).value)

\* return patches, unless an exception ended the call before
sysex_to_esq1_patches_return(c) ==
    IF c.raised # "" THEN [raised |-> c.raised, value |-> None, pos |-> c.pos]
    ELSE [raised |-> "", value |-> Some(c.self), pos |-> c.pos]

\* sysex_to_esq1_patches(filename), f being the file at filename
sysex_to_esq1_patches(f) ==
    IF f = None THEN [raised |-> "IOError", value |-> None, pos |-> 0]
    ELSE sysex_to_esq1_patches_return(
             sysex_to_esq1_patches_assert(
                 next(sysex_to_esq1_patches_body(
                          sysex_to_esq1_patches_header(f[1]))),
                 247))

----------------------------------------------------------------------------
(* The Parameter script (tests.py, TestParameter): construct one Parameter *)
(* and call its setter and its methods in any order.                       *)

\* minimum and maximum are drawn from -MaxBound..MaxBound; a default and an
\* assigned value from one further on each side.
MaxBound == 3

Bounds == (-MaxBound)..MaxBound

Values == (-MaxBound - 1)..(MaxBound + 1)

\* The draws of the random number generator: enough for every value of the
\* widest range.
Draws == 0..(2 * MaxBound)

\* No Parameter script runs.
NoParameter ==
    /\ parameter = None
    /\ args = << >>
    /\ call = << >>
    /\ before = None

ParameterInit ==
    /\ cls = "Parameter"
    /\ original = ESQ1Patch
    /\ new = ESQ1Patch
    /\ pc = "construct"
    /\ edits = 0
    /\ bytes = << >>
    /\ tampered = 0
    /\ cursor = 0
    /\ raised = ""
    /\ arg = 0
    /\ ret = 0
    /\ patches = << >>
    /\ channel = 0
    /\ file = None
    /\ result = None
    /\ copy = None
    /\ NoParameter

\* What a call on the Parameter leaves behind.
Called(name, r) ==
    /\ pc = "constructed"
    /\ call' = name
    /\ before' = Some(parameter[1].value)
    /\ parameter' = Some(r.self)
    /\ raised' = r.raised
    /\ UNCHANGED <<pc, cls, original, edits, bytes, tampered, new, cursor,
                   codecVars, sysexVars, args>>

\* parameter = Parameter(minimum, maximum) or
\* parameter = Parameter(minimum, maximum, default)
NewParameter ==
    /\ pc = "construct"
    /\ \E minimum \in Bounds, maximum \in Bounds :
          \E default \in {None} \cup {Some(v) : v \in Values} :
             /\ args' = << minimum, maximum, default >>
             /\ \E r \in {Parameter_init(minimum, maximum, default)} :
                   /\ raised' = r.raised
                   /\ parameter' = IF r.raised = "" THEN Some(r.self) ELSE None
                   /\ pc' = IF r.raised = "" THEN "constructed" ELSE "failed"
    /\ call' = << "Parameter" >>
    /\ UNCHANGED <<cls, original, edits, bytes, tampered, new, cursor,
                   codecVars, sysexVars, before>>

\* parameter.value = value
SetValue ==
    \E value \in Values :
       Called(<< "value", value >>, Parameter_value_set(parameter[1], value))

\* parameter.randomize()
CallRandomize ==
    \E r \in Draws :
       Called(<< "randomize" >>,
              [raised |-> "", self |-> Parameter_randomize(parameter[1], r)])

\* parameter.reset()
CallReset == Called(<< "reset" >>, Parameter_reset(parameter[1]))

\* parameter.set_minimum()
CallSetMinimum ==
    Called(<< "set_minimum" >>, Parameter_set_minimum(parameter[1]))

\* parameter.set_maximum()
CallSetMaximum ==
    Called(<< "set_maximum" >>, Parameter_set_maximum(parameter[1]))

ParameterNext ==
    \/ NewParameter
    \/ SetValue
    \/ CallRandomize
    \/ CallReset
    \/ CallSetMinimum
    \/ CallSetMaximum

SpecParameter == ParameterInit /\ [][ParameterNext]_vars

----------------------------------------------------------------------------
(* The parity script (tests.py, TestParity.test_parity): build an object   *)
(* of a class, randomize it, serialize it, deserialize the bytes into a    *)
(* new object of the class and compare the two.  The script of the model   *)
(* may also assign to one parameter or to the name before it serializes,   *)
(* as example.py does, and the stream may be changed before it is read.    *)

Classes == {"Envelope", "LFO", "Oscillator", "Miscellaneous", "ESQ1Patch"}

\* Names a script gives a patch: the constructor's, "Example" (example.py),
\* "ab", the empty name, "Tribel" followed by U+20AC, and U+20AC followed
\* by "uro".
Names ==
    { [i \in 1..6 |-> Space],
      << 69, 120, 97, 109, 112, 108, 101 >>,
      << 97, 98 >>,
      << >>,
      << 84, 114, 105, 98, 101, 108, 8364 >>,
      << 8364, 117, 114, 111 >> }

\* The indices of attribute a of a group: 0 stands for "not a list".
Indices(self, a) == IF a \in ListAttributes THEN 1..Len(self[a]) ELSE {0}

ParameterAt(self, a, i) == IF i = 0 THEN self[a] ELSE self[a][i]

\* self.<a>.value = v, or self.<a>[i].value = v
Group_assign(self, a, i, v) ==
    LET s == Parameter_value_set(ParameterAt(self, a, i), v)
    IN  [raised |-> s.raised,
         self |-> IF i = 0 THEN [self EXCEPT ![a] = s.self]
                  ELSE [self EXCEPT ![a][i] = s.self]]

\* The values a script tries on a parameter: one beyond each end of its range
\* and, on a parameter of a group under test, the whole range; on a parameter
\* inside a patch, the ends of the range and the default.
Tried(p, c) ==
    IF c = "ESQ1Patch"
    THEN {p.minimum - 1, p.minimum, p.default, p.maximum, p.maximum + 1}
    ELSE (p.minimum - 1)..(p.maximum + 1)

\* The bytes one byte of a stream is changed to: any byte in a group's
\* stream; in a patch's stream the bytes next to the ends of the parameters'
\* ranges, plain and shifted.
EdgeBytes ==
    {0, 1, 31, 32, 33, 39, 40, 63, 64, 65, 96, 97, 108, 109, 127, 128, 129,
     130, 191, 192, 193, 255}

TamperBytes(c) == IF c = "ESQ1Patch" THEN EdgeBytes ELSE 0..255

ParityInit ==
    /\ cls \in Classes
    /\ original = Construct(cls)
    /\ new = Construct(cls)
    /\ pc = "edit"
    /\ edits = 0
    /\ bytes = << >>
    /\ tampered = 0
    /\ cursor = 0
    /\ raised = ""
    /\ arg = 0
    /\ ret = 0
    /\ patches = << >>
    /\ channel = 0
    /\ file = None
    /\ result = None
    /\ copy = None
    /\ NoParameter

\* original.randomize()
Randomize ==
    /\ pc = "edit"
    /\ \E seed \in 0..(NSeeds - 1) :
          original' = ParameterCollection_randomize(original, cls, seed)
    /\ raised' = ""
    /\ UNCHANGED <<pc, cls, edits, bytes, tampered, new, cursor,
                   codecVars, sysexVars, parameterVars>>

\* original.<a>.value = v for a parameter group
AssignGroup ==
    /\ pc = "edit"
    /\ cls # "ESQ1Patch"
    /\ edits + tampered < MaxChanges
    /\ \E a \in DOMAIN original :
          \E i \in Indices(original, a) :
             \E v \in Tried(ParameterAt(original, a, i), cls) :
                LET r == Group_assign(original, a, i, v)
                IN  /\ original' = r.self
                    /\ raised' = r.raised
    /\ edits' = edits + 1
    /\ UNCHANGED <<pc, cls, bytes, tampered, new, cursor,
                   codecVars, sysexVars, parameterVars>>

\* original.<g>[k].<a>.value = v, original.miscellaneous.<a>.value = v
AssignPatch ==
    /\ pc = "edit"
    /\ cls = "ESQ1Patch"
    /\ edits + tampered < MaxChanges
    /\ \/ \E g \in {"envelopes", "lfos", "oscillators"} :
             \E k \in 1..Len(original[g]) :
                \E a \in DOMAIN original[g][k] :
                   \E i \in Indices(original[g][k], a) :
                      \E v \in Tried(ParameterAt(original[g][k], a, i), cls) :
                         LET r == Group_assign(original[g][k], a, i, v)
                         IN  /\ original' = [original EXCEPT ![g][k] = r.self]
                             /\ raised' = r.raised
       \/ \E a \in DOMAIN original.miscellaneous :
             \E i \in Indices(original.miscellaneous, a) :
                \E v \in Tried(ParameterAt(original.miscellaneous, a, i), cls) :
                   LET r == Group_assign(original.miscellaneous, a, i, v)
                   IN  /\ original' = [original EXCEPT !.miscellaneous = r.self]
                       /\ raised' = r.raised
    /\ edits' = edits + 1
    /\ UNCHANGED <<pc, cls, bytes, tampered, new, cursor,
                   codecVars, sysexVars, parameterVars>>

\* original.name = n
AssignName ==
    /\ pc = "edit"
    /\ cls = "ESQ1Patch"
    /\ edits + tampered < MaxChanges
    /\ \E n \in Names : original' = [original EXCEPT !.name = n]
    /\ raised' = ""
    /\ edits' = edits + 1
    /\ UNCHANGED <<pc, cls, bytes, tampered, new, cursor,
                   codecVars, sysexVars, parameterVars>>

\* original_bytes = iter(original.serialize()); new = self.cls()
DoSerialize ==
    /\ pc = "edit"
    /\ \E r \in {Serialize(original, cls)} :
          /\ raised' = r.raised
          /\ bytes' = r.bytes
          /\ pc' = IF r.raised = "" THEN "serialized" ELSE "failed"
    /\ new' = Construct(cls)
    /\ cursor' = 0
    /\ UNCHANGED <<cls, original, edits, tampered,
                   codecVars, sysexVars, parameterVars>>

\* The stream is not the one serialize() wrote: one byte of it is another
\* byte, or it ends early, or more bytes follow it.
Tamper ==
    /\ pc = "serialized"
    /\ edits + tampered < MaxChanges
    /\ \/ \E i \in 1..Len(bytes) :
             \E b \in TamperBytes(cls) :
                /\ b # bytes[i]
                /\ bytes' = [bytes EXCEPT ![i] = b]
       \/ \E n \in 0..(Len(bytes) - 1) : bytes' = SubSeq(bytes, 1, n)
       \/ \E b \in {0, 255} : bytes' = Append(bytes, b)
    /\ tampered' = tampered + 1
    /\ UNCHANGED <<pc, cls, original, edits, new, cursor, raised,
                   codecVars, sysexVars, parameterVars>>

\* new.deserialize(original_bytes)
DoDeserialize ==
    /\ pc = "serialized"
    /\ \E d \in {Deserialize(new, cls, iter(bytes, 0, FALSE))} :
          /\ new' = d.self
          /\ cursor' = d.pos
          /\ raised' = d.raised
    /\ pc' = "deserialized"
    /\ UNCHANGED <<cls, original, edits, bytes, tampered,
                   codecVars, sysexVars, parameterVars>>

ParityNext ==
    \/ Randomize
    \/ AssignGroup
    \/ AssignPatch
    \/ AssignName
    \/ DoSerialize
    \/ Tamper
    \/ DoDeserialize

SpecParity == ParityInit /\ [][ParityNext]_vars

----------------------------------------------------------------------------
(* The SYSEX script (example.py): build a patch, give it a name and       *)
(* values, write a list of patches to a file with esq1_patches_to_sysex    *)
(* and read the file back with sysex_to_esq1_patches.  The file may be     *)
(* changed between the two calls, and a file may be there before the       *)
(* first.                                                                  *)

\* The channels a script passes.
Channels == {0, 15, 255}

\* A file left at filename by something else.
OldFile == << 240, 247 >>

\* The bytes one byte of the file is changed to.
FileBytes == {0, 2, 3, 16, 247, 255}

Init ==
    /\ cls = "ESQ1Patch"
    /\ original = ESQ1Patch
    /\ new = ESQ1Patch
    /\ pc = "edit"
    /\ edits = 0
    /\ bytes = << >>
    /\ tampered = 0
    /\ cursor = 0
    /\ raised = ""
    /\ arg = 0
    /\ ret = 0
    /\ patches = << >>
    /\ channel = 0
    /\ file \in {None, Some(OldFile)}
    /\ result = None
    /\ copy = None
    /\ NoParameter

\* The list the script hands over: no patch at all, or the patch it built.
Collect ==
    /\ pc = "edit"
    /\ patches' \in {<< >>, << original >>}
    /\ pc' = "collected"
    /\ UNCHANGED <<cls, original, edits, bytes, tampered, new, cursor, raised,
                   codecVars, channel, file, result, copy, parameterVars>>

\* esq1_patches_to_sysex(patches, filename, channel)
Encode ==
    /\ pc = "collected"
    /\ \E chan \in Channels :
          /\ channel' = chan
          /\ \E r \in {esq1_patches_to_sysex(patches, file, chan)} :
                /\ raised' = r.raised
                /\ file' = r.file
                /\ patches' = r.patches
    /\ pc' = "encoded"
    /\ UNCHANGED <<cls, original, edits, bytes, tampered, new, cursor,
                   codecVars, result, copy, parameterVars>>

\* The file is not the one esq1_patches_to_sysex wrote: one byte of it is
\* another byte, or it ends early, or more bytes follow it.
TamperFile ==
    /\ pc = "encoded"
    /\ file # None
    /\ edits + tampered < MaxChanges
    /\ \/ \E i \in 1..Len(file[1]) :
             \E b \in FileBytes :
                /\ b # file[1][i]
                /\ file' = Some([file[1] EXCEPT ![i] = b])
       \/ \E n \in 0..(Len(file[1]) - 1) : file' = Some(SubSeq(file[1], 1, n))
       \/ \E b \in {0, 247} : file' = Some(Append(file[1], b))
    /\ tampered' = tampered + 1
    /\ UNCHANGED <<pc, cls, original, edits, bytes, new, cursor, raised,
                   codecVars, patches, channel, result, copy, parameterVars>>

\* sysex_to_esq1_patches(filename)
Decode ==
    /\ pc = "encoded"
    /\ \E r \in {sysex_to_esq1_patches(file)} :
          /\ raised' = r.raised
          /\ result' = r.value
          /\ cursor' = r.pos
    /\ pc' = "decoded"
    /\ UNCHANGED <<cls, original, edits, bytes, tampered, new, codecVars,
                   patches, channel, file, copy, parameterVars>>

\* esq1_patches_to_sysex(result, another filename, channel): the patches
\* read are written to a file of their own, with the channel byte of the
\* file they were read from.
Reencode ==
    /\ pc = "decoded"
    /\ raised = ""
    /\ result # None
    /\ \E r \in {esq1_patches_to_sysex(result[1], None, file[1][4])} :
          /\ raised' = r.raised
          /\ copy' = r.file
          /\ result' = Some(r.patches)
    /\ pc' = "reencoded"
    /\ UNCHANGED <<cls, original, edits, bytes, tampered, new, cursor,
                   codecVars, patches, channel, file, parameterVars>>

Next ==
    \/ Randomize
    \/ AssignPatch
    \/ AssignName
    \/ Collect
    \/ Encode
    \/ TamperFile
    \/ Decode
    \/ Reencode

Spec == Init /\ [][Next]_vars

----------------------------------------------------------------------------
(* The bank script: a list of k patches, each with values and a name of    *)
(* its own, is written to a file and read back.                            *)

\* The longest list a script hands over.
MaxPatches == 42

\* The lengths of the lists: short ones and those from 40 on.
BankSizes == {1, 2, 5} \cup (40..MaxPatches)

\* The names the patches of a list end in: "Example", nothing, and a name
\* with U+20AC.
BankNames ==
    { << 69, 120, 97, 109, 112, 108, 101 >>,
      << >>,
      << 8364, 117, 114, 111 >> }

\* The two digits of i, as characters.
Digits(i) == << 48 + ((i \div 10) % 10), 48 + (i % 10) >>

\* The i-th patch of the list: randomized on its own, its name the digits
\* of i followed by name.
BankPatch(i, seed, name) ==
    [ESQ1Patch_randomize(ESQ1Patch, seed + i) EXCEPT !.name = Digits(i) \o name]

BankInit ==
    /\ cls = "ESQ1Patch"
    /\ original = ESQ1Patch
    /\ new = ESQ1Patch
    /\ pc = "collected"
    /\ edits = 0
    /\ bytes = << >>
    /\ tampered = 0
    /\ cursor = 0
    /\ raised = ""
    /\ arg = 0
    /\ ret = 0
    /\ \E k \in BankSizes :
          \E seed \in 0..(NSeeds - 1) :
             \E name \in BankNames :
                patches = [i \in 1..k |-> BankPatch(i, seed, name)]
    /\ channel = 0
    /\ file = None
    /\ result = None
    /\ copy = None
    /\ NoParameter

BankNext ==
    \/ Encode
    \/ Decode
    \/ Reencode

SpecBank == BankInit /\ [][BankNext]_vars

----------------------------------------------------------------------------
(* Calls of the sign codec: one function on an argument, then the other    *)
(* function on what the first returned.                                    *)

CodecArgs == (-63 - CodecSlack)..(127 + CodecSlack)

CodecInit ==
    /\ cls = "ESQ1Patch"
    /\ original = ESQ1Patch
    /\ new = ESQ1Patch
    /\ pc = "codec"
    /\ edits = 0
    /\ bytes = << >>
    /\ tampered = 0
    /\ cursor = 0
    /\ raised = ""
    /\ arg = 0
    /\ ret = 0
    /\ patches = << >>
    /\ channel = 0
    /\ file = None
    /\ result = None
    /\ copy = None
    /\ NoParameter

\* ret = display_to_pcb(arg)
CallDisplayToPcb ==
    /\ pc = "codec"
    /\ \E value \in CodecArgs :
          /\ arg' = value
          /\ \E r \in {display_to_pcb(value)} :
                /\ raised' = r.raised
                /\ ret' = IF r.raised = "" THEN r.value ELSE ret
    /\ pc' = "display_to_pcb"
    /\ UNCHANGED <<cls, original, edits, bytes, tampered, new, cursor,
                   sysexVars, parameterVars>>

\* ret = pcb_to_display(arg)
CallPcbToDisplay ==
    /\ pc = "codec"
    /\ \E value \in CodecArgs :
          /\ arg' = value
          /\ \E r \in {pcb_to_display(value)} :
                /\ raised' = r.raised
                /\ ret' = IF r.raised = "" THEN r.value ELSE ret
    /\ pc' = "pcb_to_display"
    /\ UNCHANGED <<cls, original, edits, bytes, tampered, new, cursor,
                   sysexVars, parameterVars>>

\* ret = pcb_to_display(ret), ret being what display_to_pcb returned
ThenPcbToDisplay ==
    /\ pc = "display_to_pcb"
    /\ raised = ""
    /\ \E r \in {pcb_to_display(ret)} :
          /\ raised' = r.raised
          /\ ret' = IF r.raised = "" THEN r.value ELSE ret
    /\ pc' = "display_to_pcb, pcb_to_display"
    /\ UNCHANGED <<cls, original, edits, bytes, tampered, new, cursor, arg,
                   sysexVars, parameterVars>>

\* ret = display_to_pcb(ret), ret being what pcb_to_display returned
ThenDisplayToPcb ==
    /\ pc = "pcb_to_display"
    /\ raised = ""
    /\ \E r \in {display_to_pcb(ret)} :
          /\ raised' = r.raised
          /\ ret' = IF r.raised = "" THEN r.value ELSE ret
    /\ pc' = "pcb_to_display, display_to_pcb"
    /\ UNCHANGED <<cls, original, edits, bytes, tampered, new, cursor, arg,
                   sysexVars, parameterVars>>

CodecNext ==
    \/ CallDisplayToPcb
    \/ CallPcbToDisplay
    \/ ThenPcbToDisplay
    \/ ThenDisplayToPcb

SpecCodec == CodecInit /\ [][CodecNext]_vars

----------------------------------------------------------------------------
(* Properties.                                                             *)

\* A name as the claims give it: upper-cased, then cut to 6 characters or
\* filled up to 6 with spaces on the right.
NormalizedName(name) ==
    LET up == [i \in 1..Len(name) |-> upper(name[i])]
    IN  IF Len(up) >= 6 THEN SubSeq(up, 1, 6)
        ELSE up \o [i \in 1..(6 - Len(up)) |-> 32]

Normalized(patch) == [patch EXCEPT !.name = NormalizedName(patch.name)]

\* Each of the 6 characters of the normalized name fits one byte.
SingleByteName(patch) ==
    \A i \in 1..6 : NormalizedName(patch.name)[i] \in 0..255

\* C1: a parameter group (Envelope, LFO, Oscillator, Miscellaneous) with
\* any in-range values, serialized and deserialized into a new object of its
\* class, gives an object equal to it: no error, and every parameter of the
\* new object has the value it has in the original.  (serialize() of a group
\* never fails, so this is said of every group.)
C1_GroupRoundTrip ==
    /\ (pc = "failed") => cls = "ESQ1Patch"
    /\ (pc = "deserialized" /\ cls # "ESQ1Patch" /\ tampered = 0) =>
          /\ raised = ""
          /\ Group_eq(new, original)
          /\ Group_eq(original, new)
          /\ new = original

C1_Witness ==
    /\ pc = "deserialized"
    /\ cls = "Miscellaneous"
    /\ tampered = 0
    /\ edits = 1
    /\ original.split_point.value = 108
    /\ original # Miscellaneous
    /\ new = original

\* C2: a patch built from a new patch by randomize() and in-range
\* assignments to its parameters, serialized and deserialized into a new
\* patch, gives a patch equal to it: the name, the 4 envelopes, the 3 LFOs,
\* the 3 oscillators and the miscellaneous parameters are equal.  (Such a
\* patch has the name of a new patch, and serialize() does not fail on it.)
C2_PatchRoundTrip ==
    /\ (pc = "failed") => original.name # ESQ1Patch.name
    /\ (/\ pc = "deserialized"
        /\ cls = "ESQ1Patch"
        /\ tampered = 0
        /\ original.name = ESQ1Patch.name) =>
          /\ raised = ""
          /\ ESQ1Patch_eq(new, original)
          /\ ESQ1Patch_eq(original, new)
          /\ Len(new.envelopes) = 4
          /\ Len(new.lfos) = 3
          /\ Len(new.oscillators) = 3
          /\ new = original

C2_Witness ==
    /\ pc = "deserialized"
    /\ cls = "ESQ1Patch"
    /\ tampered = 0
    /\ edits = 1
    /\ original.name = ESQ1Patch.name
    /\ original.miscellaneous.split_point.value = 108
    /\ original.envelopes[1] # Envelope
    /\ new = original

\* C8: display_to_pcb takes -63..63 to 0..63 (a value >= 0, unchanged) and
\* to 65..127 (a value < 0, as 128 + value), and pcb_to_display takes the
\* result back to the value; display_to_pcb takes what pcb_to_display
\* returns for 0..127 without 64 back to it; display_to_pcb fails below -63
\* and above 63; pcb_to_display fails on 64, below 0 and above 127.
C8_SignCodec ==
    /\ pc = "display_to_pcb" =>
          IF arg \in -63..63
          THEN /\ raised = ""
               /\ arg >= 0 => ret = arg /\ ret \in 0..63
               /\ arg < 0 => ret = 128 + arg /\ ret \in 65..127
          ELSE raised # ""
    /\ pc = "pcb_to_display" =>
          IF arg \in (0..127) \ {64} THEN raised = "" ELSE raised # ""
    /\ (pc = "display_to_pcb, pcb_to_display" /\ arg \in -63..63) =>
          raised = "" /\ ret = arg
    /\ (pc = "pcb_to_display, display_to_pcb" /\ arg \in (0..127) \ {64}) =>
          raised = "" /\ ret = arg

C8_Witness ==
    /\ pc = "display_to_pcb, pcb_to_display"
    /\ arg = -63
    /\ ret = -63
    /\ raised = ""

\* The layout of a group's bytes, one row per parameter:
\* << attribute, index (0: not a list), byte (from 1), mask, shift,
\*    whether the bits are a sign-coded value >>.  The modulation source of
\* an LFO, two bits in each of two bytes, is not in the table: every four
\* bits are a modulation source.
WireLayout(c) ==
    CASE c = "Envelope" ->
           << <<"levels", 1, 1, 255, 1, TRUE>>,
              <<"levels", 2, 2, 255, 1, TRUE>>,
              <<"levels", 3, 3, 255, 1, TRUE>>,
              <<"times", 1, 4, 255, 0, FALSE>>,
              <<"times", 2, 5, 255, 0, FALSE>>,
              <<"times", 3, 6, 255, 0, FALSE>>,
              <<"times", 4, 7, 255, 0, FALSE>>,
              <<"velocity_level", 0, 8, 255, 2, FALSE>>,
              <<"velocity_attack_control", 0, 9, 255, 0, FALSE>>,
              <<"keyboard_decay_scaling", 0, 10, 255, 0, FALSE>> >>
      [] c = "LFO" ->
           << <<"waveform", 0, 1, 192, 6, FALSE>>,
              <<"frequency", 0, 1, 63, 0, FALSE>>,
              <<"levels", 1, 2, 63, 0, FALSE>>,
              <<"levels", 2, 3, 63, 0, FALSE>>,
              <<"reset", 0, 4, 128, 7, FALSE>>,
              <<"humanize", 0, 4, 64, 6, FALSE>>,
              <<"delay", 0, 4, 63, 0, FALSE>> >>
      [] c = "Oscillator" ->
           << <<"semitone", 0, 1, 255, 0, FALSE>>,
              <<"fine_tune", 0, 2, 255, 3, FALSE>>,
              <<"frequency_modulation_sources", 1, 3, 15, 0, FALSE>>,
              <<"frequency_modulation_sources", 2, 3, 240, 4, FALSE>>,
              <<"frequency_modulation_amounts", 1, 4, 255, 1, TRUE>>,
              <<"frequency_modulation_amounts", 2, 5, 255, 1, TRUE>>,
              <<"waveform", 0, 6, 255, 0, FALSE>>,
              <<"dca_enable", 0, 7, 128, 7, FALSE>>,
              <<"dca_level", 0, 7, 127, 1, FALSE>>,
              <<"dca_modulation_sources", 1, 8, 15, 0, FALSE>>,
              <<"dca_modulation_sources", 2, 8, 240, 4, FALSE>>,
              <<"dca_modulation_amounts", 1, 9, 255, 1, TRUE>>,
              <<"dca_modulation_amounts", 2, 10, 255, 1, TRUE>> >>
      [] c = "Miscellaneous" ->
           << <<"am", 0, 1, 128, 7, FALSE>>,
              <<"dca4_modulation_amount", 0, 1, 127, 1, FALSE>>,
              <<"sync", 0, 2, 128, 7, FALSE>>,
              <<"frequency", 0, 2, 127, 0, FALSE>>,
              <<"resonance", 0, 3, 255, 0, FALSE>>,
              <<"filter_modulation_sources", 1, 4, 15, 0, FALSE>>,
              <<"filter_modulation_sources", 2, 4, 240, 4, FALSE>>,
              <<"reset_voice", 0, 5, 128, 7, FALSE>>,
              <<"filter_modulation_amount", 1, 5, 127, 0, TRUE>>,
              <<"mono", 0, 6, 128, 7, FALSE>>,
              <<"filter_modulation_amount", 2, 6, 127, 0, TRUE>>,
              <<"reset_envelope", 0, 7, 128, 7, FALSE>>,
              <<"filter_keyboard_tracking", 0, 7, 127, 1, FALSE>>,
              <<"reset_oscillator", 0, 8, 128, 7, FALSE>>,
              <<"glide", 0, 8, 127, 0, FALSE>>,
              <<"split_direction", 0, 9, 128, 7, FALSE>>,
              <<"split_point", 0, 9, 127, 0, FALSE>>,
              <<"layer_flag", 0, 10, 128, 7, FALSE>>,
              <<"layer_program", 0, 10, 127, 0, FALSE>>,
              <<"split_flag", 0, 11, 128, 7, FALSE>>,
              <<"split_program", 0, 11, 127, 0, FALSE>>,
              <<"split_layer_flag", 0, 12, 128, 7, FALSE>>,
              <<"split_layer_program", 0, 12, 127, 0, FALSE>>,
              <<"pan", 0, 13, 240, 4, FALSE>>,
              <<"pan_modulation_source", 0, 13, 15, 0, FALSE>>,
              <<"cycle", 0, 14, 128, 7, FALSE>>,
              <<"pan_modulation_amount", 0, 14, 127, 0, TRUE>> >>

\* The number of bytes of an object of class c.
WireLength(c) ==
    CASE c = "Envelope" -> 10
      [] c = "LFO" -> 4
      [] c = "Oscillator" -> 10
      [] c = "Miscellaneous" -> 14
      [] c = "ESQ1Patch" -> 102

\* The groups of an object x of class c, each as
\* << class, number of bytes before it, the group >>.
GroupsOf(c, x) ==
    IF c = "ESQ1Patch"
    THEN {<<"Envelope", 6 + 10 * (k - 1), x.envelopes[k]>> : k \in 1..4}
         \cup {<<"LFO", 46 + 4 * (k - 1), x.lfos[k]>> : k \in 1..3}
         \cup {<<"Oscillator", 58 + 10 * (k - 1), x.oscillators[k]>> : k \in 1..3}
         \cup {<<"Miscellaneous", 88, x.miscellaneous>>}
    ELSE {<<c, 0, x>>}

\* The bits of the stream that row r gives a parameter of a group that
\* offset bytes precede.
Extracted(r, offset) == Shr(BitAnd(bytes[offset + r[3]], r[4]), r[5])

\* Row r has bits no value of its parameter is written as.
OutOfDomain(r, offset, p) ==
    IF r[6] THEN Extracted(r, offset) = 64
    ELSE Extracted(r, offset) < p.minimum \/ Extracted(r, offset) > p.maximum

\* C9: when the bits a stream holds for a parameter of a group, masked and
\* shifted, are outside the parameter's range, or are the sign-coded value
\* 64, the deserialize that reads the stream fails and the parameter keeps
\* the value it had: no other value is put in its place.
C9_OutOfRangeRejected ==
    pc = "deserialized" =>
        \A g \in GroupsOf(cls, new) :
            \A k \in 1..Len(WireLayout(g[1])) :
                LET r == WireLayout(g[1])[k]
                    p == ParameterAt(Construct(g[1]), r[1], r[2])
                IN  (g[2] + r[3] <= Len(bytes) /\ OutOfDomain(r, g[2], p)) =>
                        /\ raised # ""
                        /\ ParameterAt(g[3], r[1], r[2]).value = p.value

C9_Witness ==
    /\ pc = "deserialized"
    /\ cls = "Miscellaneous"
    /\ tampered = 1
    /\ Len(bytes) = 14
    /\ bytes[3] = 32
    /\ raised = "ValueError"
    /\ new.resonance.value = Miscellaneous.resonance.value
    /\ new.resonance.value # 31

C3_SinglePatch ==
    /\ raised = ""
    /\ result # None
    /\ Len(result[1]) = 1
    /\ ESQ1Patch_eq(result[1][1], Normalized(patches[1]))
    /\ result[1][1] = Normalized(patches[1])

\* C3 as claimed: for a patch p of any name and any in-range values and any
\* channel byte, Decode(Encode([p], channel)) is a list of one patch, with
\* p's values and p's name upper-cased and made 6 characters.
C3_AnyName ==
    (pc = "decoded" /\ Len(patches) = 1 /\ tampered = 0) => C3_SinglePatch

\* C3 as amended: the same, for a patch whose name, upper-cased and made 6
\* characters, is made of characters that fit one byte each (code points
\* 0..255); the channel does not change the decoded patch.
C3_SingleByteName ==
    (/\ pc = "decoded"
     /\ Len(patches) = 1
     /\ tampered = 0
     /\ SingleByteName(patches[1])) => C3_SinglePatch

C3_Witness ==
    /\ pc = "decoded"
    /\ tampered = 0
    /\ patches = << original >>
    /\ original.name = << 69, 120, 97, 109, 112, 108, 101 >>
    /\ channel = 255
    /\ raised = ""
    /\ result[1][1].name = << 69, 88, 65, 77, 80, 76 >>
    /\ result[1][1].envelopes = original.envelopes

\* What C4 says of a list of 2 patches or more.
C4_FortyPatches ==
    /\ raised = ""
    /\ file # None
    /\ file[1][5] = 2
    /\ result # None
    /\ Len(result[1]) = 40
    /\ \A i \in 1..40 :
          IF i <= Len(patches)
          THEN /\ ESQ1Patch_eq(result[1][i], Normalized(patches[i]))
               /\ result[1][i] = Normalized(patches[i])
          ELSE /\ ESQ1Patch_eq(result[1][i], ESQ1Patch)
               /\ result[1][i] = ESQ1Patch

\* C4 as claimed: for a list of k >= 2 patches Encode writes dump type 0x02
\* and Decode gives 40 patches: the first min(k, 40) are the patches of the
\* list in order, names normalized, the others are new patches, and no
\* patch of the list after the 40th is among them.
C4_AnyList ==
    (pc = "decoded" /\ Len(patches) >= 2) => C4_FortyPatches

\* C4 as amended: the same, for a list of patches whose normalized names
\* are made of characters that fit one byte each.
C4_SingleByteNames ==
    (/\ pc = "decoded"
     /\ Len(patches) >= 2
     /\ \A i \in 1..Len(patches) : SingleByteName(patches[i])) =>
        C4_FortyPatches

C4_Witness ==
    /\ pc = "decoded"
    /\ Len(patches) = 5
    /\ raised = ""
    /\ Len(result[1]) = 40
    /\ result[1][5].name = << 48, 53, 69, 88, 65, 77 >>
    /\ result[1][5].envelopes # ESQ1Patch.envelopes
    /\ result[1][6] = ESQ1Patch

\* The i-th patch Encode writes: the i-th of the list, or a new patch.
EncodedPatch(i) == IF i <= Len(patches) THEN patches[i] ELSE ESQ1Patch

\* What C5 says of the file, n being 1 or 40.
FileFormat(f, n) ==
    /\ Len(f) = 6 + 204 * n
    /\ f[1] = 240
    /\ f[2] = 15
    /\ f[3] = 2
    /\ f[4] = channel
    /\ f[5] = IF Len(patches) = 1 THEN 1 ELSE 2
    /\ \A i \in 1..n :
          LET b == ESQ1Patch_serialize(EncodedPatch(i)).bytes
          IN  /\ Len(b) = 102
              /\ \A j \in 1..102 :
                    /\ f[5 + 204 * (i - 1) + 2 * j - 1] = b[j] % 16
                    /\ f[5 + 204 * (i - 1) + 2 * j] = b[j] \div 16
    /\ f[6 + 204 * n] = 247

C5_Format ==
    /\ raised = ""
    /\ file # None
    /\ FileFormat(file[1], IF Len(patches) = 1 THEN 1 ELSE 40)

\* C5 as claimed: for every list of one patch or more and every channel
\* Encode writes 0xF0, 0x0F, 0x02, the channel, the dump type (0x01 for
\* one patch, else 0x02), then for each byte b of each written patch's 102
\* bytes the two bytes b & 0x0F and b >> 4, then 0xF7: 6 + 204 * N bytes,
\* N being 1 or 40.
C5_AnyList ==
    (pc = "encoded" /\ Len(patches) >= 1) => C5_Format

\* C5 as amended: the same, for a list of patches whose normalized names
\* are made of characters that fit one byte each.
C5_SingleByteNames ==
    (/\ pc = "encoded"
     /\ Len(patches) >= 1
     /\ \A i \in 1..Len(patches) : SingleByteName(patches[i])) => C5_Format

C5_Witness ==
    /\ pc = "encoded"
    /\ Len(patches) = 41
    /\ channel = 15
    /\ raised = ""
    /\ Len(file[1]) = 8166
    /\ file[1][4] = 15
    /\ file[1][5] = 2
    /\ file[1][6] = 0
    /\ file[1][7] = 3
    /\ file[1][8166] = 247

\* The file f is not a SYSEX file: one of its first three bytes is not
\* 0xF0, 0x0F, 0x02, or its fifth byte is neither 0x01 nor 0x02, or it ends
\* before the 204 * N bytes of the patches and the byte after them, or
\* that byte is not 0xF7.
Malformed(f) ==
    IF Len(f) < 5 THEN TRUE
    ELSE IF f[1] # 240 \/ f[2] # 15 \/ f[3] # 2 THEN TRUE
    ELSE IF f[5] \notin {1, 2} THEN TRUE
    ELSE IF Len(f) < 6 + 204 * (IF f[5] = 1 THEN 1 ELSE 40) THEN TRUE
    ELSE f[6 + 204 * (IF f[5] = 1 THEN 1 ELSE 40)] # 247

\* C6: Decode of a file that is not a SYSEX file, in one of the four ways
\* above, fails and returns no patch at all.
C6_MalformedRejected ==
    (pc = "decoded" /\ file # None /\ Malformed(file[1])) =>
        /\ raised # ""
        /\ result = None
    /\ copy = None

C6_Witness ==
    /\ pc = "decoded"
    /\ tampered = 1
    /\ file # None
    /\ Len(file[1]) = 210
    /\ file[1][5] = 1
    /\ file[1][210] = 0
    /\ raised = "AssertionError"
    /\ result = None
    /\ copy = None

\* C7: Encode of an empty list fails, and the file is as it was before the
\* call: none is made, and one that is there is not changed.
C7_EmptyListRejected ==
    [][(pc = "collected" /\ patches = << >> /\ pc' = "encoded") =>
           (raised' # "" /\ file' = file)]_vars

C7_Witness ==
    /\ pc = "encoded"
    /\ patches = << >>
    /\ raised = "ValueError"
    /\ file = Some(OldFile)

----------------------------------------------------------------------------
(* The Parameter on its own.                                               *)

\* The default __init__ was asked for: the one supplied, else the minimum.
AskedDefault == IF args[3] # None THEN args[3][1] ELSE args[1]

InRange(p, v) == p.minimum <= v /\ v <= p.maximum

\* C11: whatever calls were made on a constructed Parameter (assignments,
\* accepted or rejected, randomize, reset, set_minimum, set_maximum), its
\* value and its default lie between its minimum and its maximum, and
\* minimum, maximum and default are the ones it was constructed with.
C11_RangeInvariant ==
    parameter # None =>
        /\ InRange(parameter[1], parameter[1].value)
        /\ InRange(parameter[1], parameter[1].default)
        /\ parameter[1].minimum = args[1]
        /\ parameter[1].maximum = args[2]
        /\ parameter[1].default = AskedDefault

\* randomize() has been called on a Parameter whose value was not the
\* default, and has drawn the maximum of a range of more than one value.
C11_Witness ==
    /\ parameter # None
    /\ call = << "randomize" >>
    /\ before[1] # parameter[1].default
    /\ parameter[1].value = parameter[1].maximum
    /\ parameter[1].minimum < parameter[1].maximum

\* C12: an assignment of a value between minimum and maximum raises
\* nothing and the value read afterwards is the one assigned; an assignment
\* of a value below the minimum or above the maximum raises ValueError and
\* the value is the one before the assignment.
C12_SetContract ==
    (parameter # None /\ call # << >> /\ call[1] = "value") =>
        IF InRange(parameter[1], call[2])
        THEN raised = "" /\ parameter[1].value = call[2]
        ELSE raised = "ValueError" /\ parameter[1].value = before[1]

\* A value above the maximum has been assigned to a Parameter whose value
\* was not its default.
C12_Witness ==
    /\ parameter # None
    /\ call # << >>
    /\ call[1] = "value"
    /\ call[2] > parameter[1].maximum
    /\ raised = "ValueError"
    /\ before[1] # parameter[1].default

\* C13: Parameter(minimum, maximum[, default]) raises ValueError and
\* yields no object if minimum > maximum or a supplied default is below the
\* minimum or above the maximum; otherwise it raises nothing and the
\* object's default is the supplied one, or the minimum if none was
\* supplied, and its value is its default.
C13_Construct ==
    (call = << "Parameter" >>) =>
        IF args[1] > args[2] \/ AskedDefault < args[1] \/ AskedDefault > args[2]
        THEN raised = "ValueError" /\ parameter = None /\ pc = "failed"
        ELSE /\ raised = ""
             /\ pc = "constructed"
             /\ parameter # None
             /\ parameter[1].default = AskedDefault
             /\ parameter[1].value = AskedDefault

\* The constructor has rejected a default outside a range that is not
\* empty.
C13_Witness ==
    /\ call = << "Parameter" >>
    /\ pc = "failed"
    /\ args[1] <= args[2]
    /\ args[3] # None
    /\ raised = "ValueError"

----------------------------------------------------------------------------
(* The layout of the bytes.                                                *)

\* a | b on non-negative integers.
RECURSIVE BitOr(_, _)
BitOr(a, b) ==
    IF a = 0 THEN b
    ELSE IF b = 0 THEN a
    ELSE (IF a % 2 = 1 \/ b % 2 = 1 THEN 1 ELSE 0) + 2 * BitOr(a \div 2, b \div 2)

\* The four bytes of an LFO, field by field.
LFOLayout(lfo) ==
    << BitOr(lfo.waveform.value * 64, lfo.frequency.value),
       BitOr((lfo.modulation_source.value \div 4) * 64, lfo.levels[1].value),
       BitOr((lfo.modulation_source.value % 4) * 64, lfo.levels[2].value),
       BitOr(BitOr(lfo.reset.value * 128, lfo.humanize.value * 64),
             lfo.delay.value) >>

\* C14: an LFO serializes to four bytes: the waveform in the top two bits
\* of byte 0 over the frequency; the high two bits of the modulation source
\* in the top two bits of byte 1 over levels[0]; its low two bits in the top
\* two bits of byte 2 over levels[1]; reset in bit 7 and humanize in bit 6
\* of byte 3 over the delay.  Whatever four bytes deserialize accepts, the
\* modulation source it stores is four times the top two bits of byte 1
\* plus the top two bits of byte 2.
C14_LFOLayout ==
    cls = "LFO" =>
        /\ pc # "failed"
        /\ (pc \in {"serialized", "deserialized"} /\ tampered = 0) =>
               bytes = LFOLayout(original)
        /\ (pc = "deserialized" /\ raised = "") =>
               new.modulation_source.value =
                   (bytes[2] \div 64) * 4 + (bytes[3] \div 64)

\* An LFO whose modulation source has bits set in both halves, with a
\* waveform and a flag set, has been serialized and read back.
C14_Witness ==
    /\ cls = "LFO"
    /\ pc = "deserialized"
    /\ raised = ""
    /\ tampered = 0
    /\ original.modulation_source.value \div 4 \in 1..2
    /\ original.modulation_source.value % 4 \in 1..2
    /\ original.waveform.value > 0
    /\ original.reset.value + original.humanize.value > 0

----------------------------------------------------------------------------
(* Files read and written again.                                           *)

\* C15 as claimed: whatever file sysex_to_esq1_patches accepts, writing the
\* patches it returned with the file's channel byte gives the same file,
\* byte for byte.
C15_AnyAccepted ==
    (pc = "reencoded") => (raised = "" /\ copy = file)

\* C15 as amended: a file that esq1_patches_to_sysex wrote and
\* sysex_to_esq1_patches accepts is the file that writing the returned
\* patches with the same channel byte gives, byte for byte.
C15_WrittenAccepted ==
    (pc = "reencoded" /\ tampered = 0) => (raised = "" /\ copy = file)

\* A file written from a patch with values and a name of its own, on a
\* channel other than 0, has been read and written again.
C15_Witness ==
    /\ pc = "reencoded"
    /\ tampered = 0
    /\ patches # << >>
    /\ patches[1].name = << 69, 120, 97, 109, 112, 108, 101 >>
    /\ ~ESQ1Patch_eq(patches[1], [ESQ1Patch EXCEPT !.name = patches[1].name])
    /\ file[1][4] # 0
    /\ copy # None

----------------------------------------------------------------------------
(* Fields that share a byte.                                               *)

\* What a parameter is written as: its value, sign-coded if row r says so.
WireValue(r, x) ==
    IF r[6] THEN display_to_pcb(ParameterAt(x, r[1], r[2]).value).value
    ELSE ParameterAt(x, r[1], r[2]).value

\* The fields of the bytes of a group x of class c, each as
\* << byte (from 1), the bits of the byte that are the field's, what the
\* field adds to the byte >>: the rows of WireLayout, and the two halves of
\* an LFO's modulation source.
PackedFields(c, x) ==
    [k \in 1..Len(WireLayout(c)) |->
        << WireLayout(c)[k][3],
           IF WireLayout(c)[k][5] = 0 THEN WireLayout(c)[k][4]
           ELSE (WireLayout(c)[k][4] \div (2 ^ WireLayout(c)[k][5]))
                    * (2 ^ WireLayout(c)[k][5]),
           WireValue(WireLayout(c)[k], x) * (2 ^ WireLayout(c)[k][5]) >>]
    \o (IF c = "LFO"
        THEN << << 2, 192, (x.modulation_source.value \div 4) * 64 >>,
                << 3, 192, (x.modulation_source.value % 4) * 64 >> >>
        ELSE << >>)

\* The sum, and the bitwise OR, of what the fields from the k-th on add to
\* byte b.
RECURSIVE SumOfFields(_, _, _)
SumOfFields(fields, b, k) ==
    IF k > Len(fields) THEN 0
    ELSE (IF fields[k][1] = b THEN fields[k][3] ELSE 0)
         + SumOfFields(fields, b, k + 1)

RECURSIVE OrOfFields(_, _, _)
OrOfFields(fields, b, k) ==
    IF k > Len(fields) THEN 0
    ELSE BitOr(IF fields[k][1] = b THEN fields[k][3] ELSE 0,
               OrOfFields(fields, b, k + 1))

\* The fields of a group keep to their bits of the bytes data.
Disjoint(fields, data) ==
    /\ \A k \in 1..Len(fields) :
          /\ fields[k][3] >= 0
          /\ BitAnd(fields[k][3], fields[k][2]) = fields[k][3]
          /\ \A l \in 1..Len(fields) :
                (l # k /\ fields[l][1] = fields[k][1]) =>
                    /\ BitAnd(fields[k][2], fields[l][2]) = 0
                    /\ BitAnd(fields[k][3], fields[l][3]) = 0
    /\ \A b \in 1..Len(data) :
          /\ data[b] \in 0..255
          /\ data[b] = SumOfFields(fields, b, 1)
          /\ data[b] = OrOfFields(fields, b, 1)

\* C16: serialize() fails on no values of the parameters of a group; every
\* byte it writes is in 0..255; the fields written to one byte have no bit
\* of the byte in common, none of them has a bit outside its own bits, and
\* the byte, their sum, is their bitwise OR.
C16_DisjointFields ==
    /\ (pc = "failed") => (cls = "ESQ1Patch" /\ ~SingleByteName(original))
    /\ (pc \in {"serialized", "deserialized"} /\ tampered = 0) =>
          \A g \in GroupsOf(cls, original) :
             Disjoint(PackedFields(g[1], g[3]),
                      SubSeq(bytes, g[2] + 1, g[2] + WireLength(g[1])))

\* An oscillator whose first modulation source of each pair has all four
\* bits set, the second not, and whose DCA is enabled at a level of more
\* than half the range, has been serialized.
C16_Witness ==
    /\ cls = "Oscillator"
    /\ pc = "serialized"
    /\ tampered = 0
    /\ original.frequency_modulation_sources[1].value = 15
    /\ original.frequency_modulation_sources[2].value \in 1..14
    /\ original.dca_enable.value = 1
    /\ original.dca_level.value > 32

----------------------------------------------------------------------------
(* What esq1_patches_to_sysex leaves of its arguments.                     *)

\* C17: a call of esq1_patches_to_sysex, whether it writes the file or
\* raises, leaves the list it was given as it was: the same patches in the
\* same order, each with the name and the values it had, also when the
\* file holds blank patches after them or fewer patches than the list, and
\* when the name written is not the patch's name.
C17_ArgumentsUnchanged ==
    [][(pc = "collected" /\ pc' = "encoded") => patches' = patches]_vars

\* A list of more than one and fewer than 40 patches, with names that are
\* not written as they are, has been written to a file of 40 patches.
C17_Witness ==
    /\ pc = "encoded"
    /\ raised = ""
    /\ file # None
    /\ Len(file[1]) = 6 + 40 * 204
    /\ Len(patches) \in 2..39
    /\ \A i \in 1..Len(patches) :
          /\ patches[i].name # NormalizedName(patches[i].name)
          /\ ~ESQ1Patch_eq(patches[i], [ESQ1Patch EXCEPT !.name = patches[i].name])

=============================================================================
